---- MODULE Spec2Model ----
(***************************************************************************)
(* file-content-obfuscator (src/main.py): substitute_chars, shuffle_chars,  *)
(* obfuscate_file and main, as a state machine.                             *)
(*                                                                          *)
(* A character is represented by its code point, so a str is a sequence of  *)
(* integers in 0 .. MaxCodePoint.  A file holds the text it decodes to;     *)
(* a file whose bytes do not decode is marked valid = FALSE.  Text I/O is   *)
(* that of open(path, 'r') / open(path, 'w') on a POSIX host with the UTF-8 *)
(* default encoding.                                                        *)
(***************************************************************************)
EXTENDS Integers, Sequences, FiniteSets, Bags, TLC

VARIABLES
    fs,                 \* the file system: path -> file state
    fs0,                \* the file system when the process started (history)
    argv,               \* the command line, as parse_args sees it
    pc,                 \* position of the process in main / obfuscate_file
    content,            \* obfuscate_file: content
    obfuscated_content, \* obfuscate_file: obfuscated_content
    exc,                \* the exception in flight ("None" when there is none)
    opened,             \* the paths open() was called on so far (history)
    log,                \* records handed to the logging module
    exit_status,        \* process exit status (-1 while running)
    fn_content,         \* argument of a direct call of a transform
    fn_key,             \* argument of a direct call of substitute_chars
    fn_ret,             \* outcome of the direct call
    fn_pc               \* "idle" | "call" | "done"

vars == <<fs, fs0, argv, pc, content, obfuscated_content, exc, opened,
          log, exit_status, fn_content, fn_key, fn_ret, fn_pc>>

procVars == <<fs, fs0, argv, pc, content, obfuscated_content, exc, opened,
              log, exit_status>>

fnVars == <<fn_content, fn_key, fn_ret, fn_pc>>

----------------------------------------------------------------------------
(* Bounds of the model *)

MaxLen == 3          \* longest text drawn for a file or a direct call

----------------------------------------------------------------------------
(* Characters *)

MaxCodePoint == 1114111     \* 0x10FFFF, the largest argument chr() accepts
SurrogateLo  == 55296       \* 0xD800
SurrogateHi  == 57343       \* 0xDFFF
DefaultKey   == 42

CR == 13
LF == 10

\* the characters texts are drawn from: '\n', '\r', 'a', chr(0x10FFFF)
Alphabet == {LF, CR, 97, MaxCodePoint}

\* the keys calls are drawn from: below zero for 'a', identity, one step,
\* the default, 'a' -> U+D800, 'a' -> past the last code point
Keys == {-98, 0, 1, DefaultKey, SurrogateLo - 97, MaxCodePoint}

RECURSIVE SeqsUpTo(_, _)
SeqsUpTo(S, n) ==
    IF n = 0 THEN {<<>>}
    ELSE LET shorter == SeqsUpTo(S, n - 1)
         IN  shorter \cup {Append(s, c) : s \in {t \in shorter : Len(t) = n - 1}, c \in S}

Texts == SeqsUpTo(Alphabet, MaxLen)

\* the multiset of the characters of a str
RECURSIVE CharBag(_)
CharBag(s) ==
    IF s = <<>> THEN EmptyBag
    ELSE CharBag(Tail(s)) (+) SetToBag({Head(s)})

----------------------------------------------------------------------------
(* Outcomes of a call: a returned value or a raised exception *)

Return(v) == [raised |-> "None", value |-> v]
Raise(e)  == [raised |-> e, value |-> <<>>]

----------------------------------------------------------------------------
(* substitute_chars *)

ord(char) == char

\* chr(i) raises ValueError unless 0 <= i <= 0x10FFFF
ChrDefined(i) == 0 <= i /\ i <= MaxCodePoint
chr(i) == i

\* variant of ShiftedOrd that wraps around past the last code point
ShiftedOrd_wrap(char, key) == (ord(char) + key) % (MaxCodePoint + 1)

ShiftedOrd(char, key) == ord(char) + key

\* the loop of substitute_chars from its i-th character on, acc being
\* obfuscated_content so far
RECURSIVE substitute_loop(_, _, _, _)
substitute_loop(c, key, i, acc) ==
    IF i > Len(c) THEN Return(acc)
    ELSE IF ChrDefined(ShiftedOrd(c[i], key))
         THEN substitute_loop(c, key, i + 1, Append(acc, chr(ShiftedOrd(c[i], key))))
         ELSE Raise("ValueError")

substitute_chars(c, key) == substitute_loop(c, key, 1, <<>>)

----------------------------------------------------------------------------
(* shuffle_chars *)

\* variant of Swap that stores x[j] at i and loses x[i]
Swap_overwrite(x, i, j) == [x EXCEPT ![i] = x[j]]

\* x[i], x[j] = x[j], x[i]
Swap(x, i, j) == [x EXCEPT ![i] = x[j], ![j] = x[i]]

\* random.shuffle(x): for i in reversed(range(1, len(x))), with j drawn from
\* 0 .. i, swap x[i] and x[j].  Positions are 1-based here, so i runs from
\* Len(x) down to 2 and j over 1 .. i.  The set of lists a run can leave.
RECURSIVE random_shuffle(_, _)
random_shuffle(x, i) ==
    IF i < 2 THEN {x}
    ELSE UNION {random_shuffle(Swap(x, i, j), i - 1) : j \in 1..i}

\* content_list = list(content); random.shuffle(content_list);
\* return ''.join(content_list)
shuffle_chars(c) == random_shuffle(c, Len(c))

----------------------------------------------------------------------------
(* Direct calls of the two transforms *)

procIdle ==
    /\ fs = <<>> /\ fs0 = <<>> /\ argv = <<>> /\ pc = "none"
    /\ content = <<>> /\ obfuscated_content = <<>> /\ exc = "None"
    /\ opened = {} /\ log = <<>> /\ exit_status = -1

InitSubstitute ==
    /\ procIdle
    /\ fn_content \in Texts
    /\ fn_key \in Keys
    /\ fn_ret = Return(<<>>)
    /\ fn_pc = "call"

CallSubstitute ==
    /\ fn_pc = "call"
    /\ fn_ret' = substitute_chars(fn_content, fn_key)
    /\ fn_pc' = "done"
    /\ UNCHANGED <<procVars, fn_content, fn_key>>

SpecSubstitute == InitSubstitute /\ [][CallSubstitute]_vars

InitShuffle ==
    /\ procIdle
    /\ fn_content \in Texts
    /\ fn_key = 0
    /\ fn_ret = Return(<<>>)
    /\ fn_pc = "call"

CallShuffle ==
    /\ fn_pc = "call"
    /\ \E r \in shuffle_chars(fn_content) : fn_ret' = Return(r)
    /\ fn_pc' = "done"
    /\ UNCHANGED <<procVars, fn_content, fn_key>>

SpecShuffle == InitShuffle /\ [][CallShuffle]_vars

----------------------------------------------------------------------------
(* The file system *)

Paths == {"in.txt", "out.txt", "nodir/out.txt"}

\* "nodir/out.txt" lies in a directory that does not exist
ParentExists(path) == path # "nodir/out.txt"

Absent     == [kind |-> "absent", perm |-> "rw", valid |-> TRUE, data |-> <<>>]
Directory  == [kind |-> "dir", perm |-> "rw", valid |-> TRUE, data |-> <<>>]
File(d)    == [kind |-> "file", perm |-> "rw", valid |-> TRUE, data |-> d]
\* a file this user may read but not write
ReadOnly(d) == [kind |-> "file", perm |-> "ro", valid |-> TRUE, data |-> d]
\* a file this user may neither read nor write
NoAccess(d) == [kind |-> "file", perm |-> "none", valid |-> TRUE, data |-> d]
\* a file whose bytes are not text in the default encoding
Undecodable == [kind |-> "file", perm |-> "rw", valid |-> FALSE, data |-> <<>>]

InputStates ==
    {Absent, Directory, NoAccess(<<97>>), Undecodable} \cup {File(t) : t \in Texts}

OutputStates == {Absent, Directory, File(<<120>>), ReadOnly(<<120>>)}

\* Path.exists()
exists(f) == f.kind # "absent"

\* the exception open(path, 'r') raises, "None" when it opens the file
OpenReadError(f) ==
    IF f.kind = "absent" THEN "FileNotFoundError"
    ELSE IF f.kind = "dir" THEN "IsADirectoryError"
    ELSE IF f.perm = "none" THEN "PermissionError"
    ELSE "None"

\* infile.read() in text mode with newline=None: "\r\n" and "\r" read as "\n"
RECURSIVE UniversalNewlines(_)
UniversalNewlines(d) ==
    IF d = <<>> THEN <<>>
    ELSE IF Head(d) = CR
         THEN IF Len(d) > 1 /\ d[2] = LF
              THEN <<LF>> \o UniversalNewlines(Tail(Tail(d)))
              ELSE <<LF>> \o UniversalNewlines(Tail(d))
         ELSE <<Head(d)>> \o UniversalNewlines(Tail(d))

\* infile.read(): UnicodeDecodeError when the bytes do not decode
ReadText(f) ==
    IF f.valid THEN Return(UniversalNewlines(f.data)) ELSE Raise("UnicodeDecodeError")

\* the exception open(path, 'w') raises, "None" when it opens the file
OpenWriteError(path, f) ==
    IF ~ParentExists(path) THEN "FileNotFoundError"
    ELSE IF f.kind = "dir" THEN "IsADirectoryError"
    ELSE IF f.kind = "file" /\ f.perm # "rw" THEN "PermissionError"
    ELSE "None"

\* the file open(path, 'w') leaves: created, or truncated to nothing
Truncated(f) == File(<<>>)

\* the UTF-8 encoder refuses the surrogates U+D800 .. U+DFFF
Encodable(s) == \A i \in 1..Len(s) : ~(SurrogateLo <= s[i] /\ s[i] <= SurrogateHi)

----------------------------------------------------------------------------
(* obfuscate_file and main *)

LogLevelChoices == {"DEBUG", "INFO", "WARNING", "ERROR", "CRITICAL"}

\* the names logging.getLogger().setLevel() accepts
LoggingLevelNames == LogLevelChoices \cup {"WARN", "FATAL", "NOTSET"}

\* the command lines drawn: "VERBOSE" is a level argparse does not list
LogLevelArgs == {"INFO", "VERBOSE"}

Argvs ==
    [input_file : {"in.txt"}, output_file : Paths, substitution : BOOLEAN,
     shuffle : BOOLEAN, key : Keys, log_level : LogLevelArgs]

\* the exception classes that occur, and the except clause each one enters
OSErrors    == {"FileNotFoundError", "IsADirectoryError", "PermissionError", "OSError"}
ValueErrors == {"ValueError", "UnicodeDecodeError", "UnicodeEncodeError"}

\* except FileNotFoundError / except IOError / except ValueError / except Exception,
\* tried in this order
ExceptClause(e) ==
    IF e = "FileNotFoundError" THEN "FileNotFoundError"
    ELSE IF e \in OSErrors THEN "IOError"
    ELSE IF e \in ValueErrors THEN "ValueError"
    ELSE "Exception"

\* variant of InputExists without the existence test
InputExists_unchecked(f) == TRUE

\* if not input_file_path.exists(): raise FileNotFoundError
InputExists(f) == exists(f)

\* variant of NoMethodSelected without the configuration test
NoMethodSelected_unchecked(substitution, shuffle) == FALSE

\* if not substitution and not shuffle: raise ValueError
NoMethodSelected(substitution, shuffle) == ~substitution /\ ~shuffle

\* variant of ShuffleArgument that shuffles the content as read
ShuffleArgument_original(c, oc) == c

\* shuffle_chars(obfuscated_content): the content the shuffle is given
ShuffleArgument(c, oc) == oc

\* variant of WriteTarget that writes over the input path
WriteTarget_input(input_file, output_file) == input_file

\* open(output_file_path, 'w'): the path the result is written to
WriteTarget(input_file, output_file) == output_file

Init ==
    /\ argv \in Argvs
    /\ \E i \in InputStates :
       \E o \in (IF argv.output_file = "out.txt" THEN OutputStates ELSE {Absent}) :
           fs = [p \in Paths |-> IF p = "in.txt" THEN i
                                 ELSE IF p = "out.txt" THEN o ELSE Absent]
    /\ fs0 = fs
    /\ pc = "parse_args"
    /\ content = <<>>
    /\ obfuscated_content = <<>>
    /\ exc = "None"
    /\ opened = {}
    /\ log = <<>>
    /\ exit_status = -1
    /\ fn_content = <<>> /\ fn_key = 0 /\ fn_ret = Return(<<>>) /\ fn_pc = "idle"

\* args = parser.parse_args(): a log level outside the choices is an argparse
\* error, which exits with status 2
ParseArgs ==
    /\ pc = "parse_args"
    /\ IF argv.log_level \in LogLevelChoices
       THEN pc' = "set_level" /\ UNCHANGED exit_status
       ELSE pc' = "exited" /\ exit_status' = 2
    /\ UNCHANGED <<fs, fs0, argv, content, obfuscated_content, exc, opened, log, fnVars>>

\* try: logging.getLogger().setLevel(args.log_level)
\* except ValueError: logging.error(...); sys.exit(1)
SetLevel ==
    /\ pc = "set_level"
    /\ IF argv.log_level \in LoggingLevelNames
       THEN pc' = "exists" /\ UNCHANGED <<log, exit_status>>
       ELSE /\ log' = Append(log, "Invalid log level specified.")
            /\ exit_status' = 1
            /\ pc' = "exited"
    /\ UNCHANGED <<fs, fs0, argv, content, obfuscated_content, exc, opened, fnVars>>

CheckExists ==
    /\ pc = "exists"
    /\ IF InputExists(fs[argv.input_file])
       THEN pc' = "config" /\ UNCHANGED exc
       ELSE pc' = "except" /\ exc' = "FileNotFoundError"
    /\ UNCHANGED <<fs, fs0, argv, content, obfuscated_content, opened, log,
                   exit_status, fnVars>>

CheckConfig ==
    /\ pc = "config"
    /\ IF NoMethodSelected(argv.substitution, argv.shuffle)
       THEN pc' = "except" /\ exc' = "ValueError"
       ELSE pc' = "read" /\ UNCHANGED exc
    /\ UNCHANGED <<fs, fs0, argv, content, obfuscated_content, opened, log,
                   exit_status, fnVars>>

\* with open(input_file_path, 'r') as infile: content = infile.read()
\* obfuscated_content = content
ReadInput ==
    /\ pc = "read"
    /\ opened' = opened \cup {argv.input_file}
    /\ LET f == fs[argv.input_file]
           r == ReadText(f)
       IN  IF OpenReadError(f) # "None"
           THEN /\ exc' = OpenReadError(f) /\ pc' = "except"
                /\ UNCHANGED <<content, obfuscated_content>>
           ELSE IF r.raised # "None"
           THEN /\ exc' = r.raised /\ pc' = "except"
                /\ UNCHANGED <<content, obfuscated_content>>
           ELSE /\ content' = r.value
                /\ obfuscated_content' = r.value
                /\ pc' = "substitute"
                /\ UNCHANGED exc
    /\ UNCHANGED <<fs, fs0, argv, log, exit_status, fnVars>>

\* if substitution: obfuscated_content = substitute_chars(obfuscated_content, key)
ApplySubstitution ==
    /\ pc = "substitute"
    /\ LET r == substitute_chars(obfuscated_content, argv.key)
       IN  IF ~argv.substitution
           THEN pc' = "shuffle" /\ UNCHANGED <<obfuscated_content, exc, log>>
           ELSE IF r.raised # "None"
           THEN /\ exc' = r.raised /\ pc' = "except"
                /\ UNCHANGED <<obfuscated_content, log>>
           ELSE /\ obfuscated_content' = r.value
                /\ log' = Append(log, "Applied substitution cipher.")
                /\ pc' = "shuffle"
                /\ UNCHANGED exc
    /\ UNCHANGED <<fs, fs0, argv, content, opened, exit_status, fnVars>>

\* if shuffle: obfuscated_content = shuffle_chars(obfuscated_content)
ApplyShuffle ==
    /\ pc = "shuffle"
    /\ IF ~argv.shuffle
       THEN UNCHANGED <<obfuscated_content, log>>
       ELSE /\ obfuscated_content' \in
                   shuffle_chars(ShuffleArgument(content, obfuscated_content))
            /\ log' = Append(log, "Applied character shuffling.")
    /\ pc' = "open_out"
    /\ UNCHANGED <<fs, fs0, argv, content, exc, opened, exit_status, fnVars>>

\* with open(output_file_path, 'w') as outfile: the open creates or truncates
OpenOutput ==
    /\ pc = "open_out"
    /\ LET path == WriteTarget(argv.input_file, argv.output_file)
           e == OpenWriteError(path, fs[path])
       IN  /\ opened' = opened \cup {path}
           /\ IF e # "None"
              THEN exc' = e /\ pc' = "except" /\ UNCHANGED fs
              ELSE /\ fs' = [fs EXCEPT ![path] = Truncated(fs[path])]
                   /\ pc' = "write"
                   /\ UNCHANGED exc
    /\ UNCHANGED <<fs0, argv, content, obfuscated_content, log, exit_status, fnVars>>

\* outfile.write(obfuscated_content), and the flush when the with block ends.
\* The text is encoded first (UnicodeEncodeError writes nothing); the device
\* may run out of room after any part of a non-empty text (OSError).
WriteOutput ==
    /\ pc = "write"
    /\ LET path == WriteTarget(argv.input_file, argv.output_file)
       IN  IF ~Encodable(obfuscated_content)
           THEN exc' = "UnicodeEncodeError" /\ pc' = "except" /\ UNCHANGED fs
           ELSE \/ /\ fs' = [fs EXCEPT ![path].data = obfuscated_content]
                   /\ pc' = "saved"
                   /\ UNCHANGED exc
                \/ \E n \in 0..(Len(obfuscated_content) - 1) :
                       /\ fs' = [fs EXCEPT ![path].data = SubSeq(obfuscated_content, 1, n)]
                       /\ exc' = "OSError"
                       /\ pc' = "except"
    /\ UNCHANGED <<fs0, argv, content, obfuscated_content, opened, log,
                   exit_status, fnVars>>

\* logging.info(f"Obfuscated file saved to: {output_file_path}")
LogSaved ==
    /\ pc = "saved"
    /\ log' = Append(log, "Obfuscated file saved to")
    /\ pc' = "returned"
    /\ UNCHANGED <<fs, fs0, argv, content, obfuscated_content, exc, opened,
                   exit_status, fnVars>>

\* the except clauses of obfuscate_file: each logs and re-raises
HandleException ==
    /\ pc = "except"
    /\ log' = Append(log,
                CASE ExceptClause(exc) = "FileNotFoundError" -> "error: not found"
                  [] ExceptClause(exc) = "IOError" -> "error: IOError"
                  [] ExceptClause(exc) = "ValueError" -> "error: value"
                  [] OTHER -> "error: An unexpected error occurred")
    /\ pc' = "raised"
    /\ UNCHANGED <<fs, fs0, argv, content, obfuscated_content, exc, opened,
                   exit_status, fnVars>>

\* main: obfuscate_file returned, the process ends with status 0
MainReturn ==
    /\ pc = "returned"
    /\ exit_status' = 0
    /\ pc' = "exited"
    /\ UNCHANGED <<fs, fs0, argv, content, obfuscated_content, exc, opened, log, fnVars>>

\* main: every except clause around obfuscate_file is sys.exit(1)
MainExcept ==
    /\ pc = "raised"
    /\ exit_status' = 1
    /\ pc' = "exited"
    /\ UNCHANGED <<fs, fs0, argv, content, obfuscated_content, exc, opened, log, fnVars>>

Next ==
    \/ ParseArgs \/ SetLevel \/ CheckExists \/ CheckConfig \/ ReadInput
    \/ ApplySubstitution \/ ApplyShuffle \/ OpenOutput \/ WriteOutput
    \/ LogSaved \/ HandleException \/ MainReturn \/ MainExcept

Spec == Init /\ [][Next]_vars

----------------------------------------------------------------------------
(* Properties *)

\* obfuscate_file has returned, or has raised into main
Returned == pc = "returned"
Failed   == pc = "raised"
Finished == Returned \/ Failed

InputFile0  == fs0[argv.input_file]
OutputFile0 == fs0[argv.output_file]
OutputFile  == fs[argv.output_file]

\* every shifted code point of C is one chr() accepts
InRange(C, K) == \A i \in 1..Len(C) : 0 <= C[i] + K /\ C[i] + K <= MaxCodePoint

\* the value is C with K added to each code point
ShiftedBy(v, C, K) ==
    /\ Len(v) = Len(C)
    /\ \A i \in 1..Len(C) : v[i] = C[i] + K

\* C1 as stated: for every content and every integer key, substitute_chars
\* returns a value, of the length of the content, whose i-th code point is the
\* content's i-th code point plus the key.
C1_AlwaysReturnsShifted ==
    fn_pc = "done" =>
        /\ fn_ret.raised = "None"
        /\ ShiftedBy(fn_ret.value, fn_content, fn_key)

\* C1 amended: when every shifted code point lies in 0 .. 0x10FFFF,
\* substitute_chars returns the content shifted by the key, same length, no
\* clamping or wraparound (the empty content gives the empty result);
\* otherwise it raises ValueError and returns nothing.
C1_ShiftedOrValueError ==
    fn_pc = "done" =>
        IF InRange(fn_content, fn_key)
        THEN /\ fn_ret.raised = "None"
             /\ ShiftedBy(fn_ret.value, fn_content, fn_key)
        ELSE fn_ret.raised = "ValueError"

\* C1 witness: a call on two or more characters with the default key returned
C1_Witness ==
    /\ fn_pc = "done"
    /\ fn_ret.raised = "None"
    /\ Len(fn_content) >= 2
    /\ fn_key = DefaultKey
    /\ fn_ret.value # fn_content

\* C2: shuffle_chars returns a reordering of its content, same length and same
\* multiset of characters whatever the random draws; an empty or
\* one-character content comes back unchanged.
C2_Reordering ==
    fn_pc = "done" =>
        /\ fn_ret.raised = "None"
        /\ Len(fn_ret.value) = Len(fn_content)
        /\ CharBag(fn_ret.value) = CharBag(fn_content)
        /\ (Len(fn_content) <= 1 => fn_ret.value = fn_content)

\* C2 witness: a content of three characters, one of them repeated, came back
\* in another order
C2_Witness ==
    /\ fn_pc = "done"
    /\ Len(fn_content) = 3
    /\ Cardinality({fn_content[i] : i \in 1..3}) = 2
    /\ fn_ret.value # fn_content

\* C3: after a successful run with both flags set, the output file holds a
\* text with the multiset of characters of substitute_chars(original input
\* content, key), whichever permutation was drawn.
C3_ShiftThenShuffle ==
    (Returned /\ argv.substitution /\ argv.shuffle) =>
        LET original == ReadText(InputFile0).value
            shifted  == substitute_chars(original, argv.key)
        IN  /\ shifted.raised = "None"
            /\ OutputFile.kind = "file"
            /\ CharBag(OutputFile.data) = CharBag(shifted.value)

\* C3 witness: such a run, with a key that changes the text and a permutation
\* that is not the identity
C3_Witness ==
    /\ Returned /\ argv.substitution /\ argv.shuffle
    /\ argv.key = 1
    /\ Len(content) >= 2
    /\ OutputFile.data # substitute_chars(content, argv.key).value

\* C4: on an existing input with neither flag set, obfuscate_file fails with
\* ValueError before any file is opened, and the output path is left as it
\* was: not created, not truncated, not modified.
C4_InvalidConfiguration ==
    (Finished /\ exists(InputFile0) /\ ~argv.substitution /\ ~argv.shuffle) =>
        /\ Failed
        /\ exc = "ValueError"
        /\ opened = {}
        /\ fs = fs0

\* C4 witness: the failure, with an output file that existed before the run
C4_Witness ==
    /\ Failed /\ ~argv.substitution /\ ~argv.shuffle
    /\ InputFile0.kind = "file"
    /\ OutputFile0 = File(<<120>>)
    /\ exc = "ValueError"

\* the input path exists but cannot be read as a file
Unreadable(f) == f.kind = "dir" \/ (f.kind = "file" /\ f.perm = "none")

\* C5 as stated: when the input path is absent, or exists but cannot be read
\* as a file, obfuscate_file fails with FileNotFoundError for every flags and
\* key, and the output file is neither created nor modified.
C5_NotFoundWheneverUnreadable ==
    (Finished /\ (~exists(InputFile0) \/ Unreadable(InputFile0))) =>
        /\ Failed
        /\ exc = "FileNotFoundError"
        /\ OutputFile = OutputFile0

\* C5 amended: when the input path is absent, obfuscate_file fails with
\* FileNotFoundError for every flags and key; when it exists but cannot be
\* read as a file it fails in the ValueError clause if neither flag is set and
\* in the IOError clause otherwise; in both cases no file is created or
\* modified.
C5_NotFoundWhenAbsent ==
    /\ (Finished /\ ~exists(InputFile0)) =>
           /\ Failed
           /\ exc = "FileNotFoundError"
           /\ fs = fs0
    /\ (Finished /\ Unreadable(InputFile0)) =>
           /\ Failed
           /\ ExceptClause(exc) =
                  (IF ~argv.substitution /\ ~argv.shuffle THEN "ValueError" ELSE "IOError")
           /\ fs = fs0

\* C5 witness: the input is absent, neither flag is set, and the run has
\* failed with an output file that existed before it
C5_Witness ==
    /\ Failed
    /\ ~exists(InputFile0)
    /\ ~argv.substitution /\ ~argv.shuffle
    /\ OutputFile0 = File(<<120>>)

\* C6: after any run of obfuscate_file, successful or not, the output file
\* holds the whole transformed content or is exactly as it was before the run.
C6_AtomicWrite ==
    Finished =>
        \/ OutputFile = OutputFile0
        \/ Returned /\ OutputFile.kind = "file" /\ OutputFile.data = obfuscated_content

\* obfuscate_file completed without error
SavedLogged == log # <<>> /\ log[Len(log)] = "Obfuscated file saved to"

\* C7: the process exits with status 0 exactly when obfuscate_file completed
\* without error and with status 1 on every failure; an invalid log level
\* exits with status 1 before obfuscate_file is called.
C7_ExitStatus ==
    pc = "exited" =>
        /\ exit_status \in {0, 1}
        /\ exit_status = 0 <=> SavedLogged
        /\ argv.log_level \notin LogLevelChoices =>
               (exit_status = 1 /\ opened = {} /\ exc = "None")

\* C8: obfuscate_file fails in the ValueError (InvalidConfiguration) kind only
\* when neither transform flag is set.
C8_ValueErrorOnlyForNoMethod ==
    (Failed /\ ExceptClause(exc) = "ValueError") =>
        (~argv.substitution /\ ~argv.shuffle)

\* C9: obfuscate_file fails in the FileNotFoundError (NotFound) kind only
\* when the input path does not exist; a failure to open or write the output
\* of an existing input is never reported as FileNotFoundError.
C9_NotFoundOnlyForInput ==
    (Failed /\ ExceptClause(exc) = "FileNotFoundError") => ~exists(InputFile0)

\* C10 as stated: for any flags, key and pair of paths, the input file is
\* after the run as it was before it, and no path but the output path changed.
C10_InputUntouched ==
    Finished =>
        /\ fs[argv.input_file] = InputFile0
        /\ \A p \in Paths \ {argv.output_file} : fs[p] = fs0[p]

\* C10 amended: when the output path is not the input path, the input file is
\* after the run as it was before it; for every pair of paths, no path but the
\* output path changed.
C10_InputUntouchedUnlessOutput ==
    Finished =>
        /\ argv.output_file # argv.input_file => fs[argv.input_file] = InputFile0
        /\ \A p \in Paths \ {argv.output_file} : fs[p] = fs0[p]

\* C10 witness: a successful run that wrote an output file other than its
\* input
C10_Witness ==
    /\ Returned
    /\ argv.output_file # argv.input_file
    /\ OutputFile # OutputFile0
    /\ Len(content) >= 1

====
